---- MODULE Spec2Model ----
(***************************************************************************)
(* Model of the stock query agent (lambda-src/app.py): the two registered   *)
(* tools with the tiered price lookup and the historical record, the        *)
(* AgentExecutor reasoning loop as app.py configures it, and process_query. *)
(*                                                                          *)
(* Text is a sequence of one-character strings.  Money is an integer number *)
(* of thousandths of a dollar; a price rendered or rounded to two decimals  *)
(* is an integer number of cents.  The market-data provider (yfinance) and  *)
(* the language model are the environment: every response they can give is  *)
(* chosen nondeterministically.                                             *)
(***************************************************************************)
EXTENDS Integers, Sequences, FiniteSets, TLC

VARIABLES
    tool,               \* name of the tool func invoked directly, or "none"
    input_str,          \* the text handed to the tool
    env,                \* the data source's responses to this invocation
    calls,              \* the calls the invocation made, in order
    outcome,            \* what the tool func did: return a text, or raise
    state,              \* position of the reasoning run
    iterations,         \* AgentExecutor's iteration counter
    intermediate_steps, \* AgentExecutor's (action, observation) history
    pending,            \* the action parsed from the oracle's last output
    observation,        \* observation of the action just run
    response,           \* what agent_executor.invoke returned or raised
    http                \* what process_query returned or raised

toolVars == <<tool, input_str, env, calls, outcome>>
agentVars == <<state, iterations, intermediate_steps, pending, observation, response, http>>
vars == <<tool, input_str, env, calls, outcome, state, iterations,
          intermediate_steps, pending, observation, response, http>>

----------------------------------------------------------------------------
(* Bounds of the model *)

MaxLen == 5
MaxPoints == 2

(* Characters the input text is built from: a lower-case letter, a blank *)
(* and the separator. *)
Chars == {"a", " ", ","}

RECURSIVE StringsOfLen(_)
StringsOfLen(n) ==
    IF n = 0 THEN {<<>>}
    ELSE {Append(s, c) : s \in StringsOfLen(n - 1), c \in Chars}

Strings == UNION {StringsOfLen(n) : n \in 0..MaxLen}

Min(S) == CHOOSE x \in S : \A y \in S : x <= y
Max(S) == CHOOSE x \in S : \A y \in S : x >= y

----------------------------------------------------------------------------
(* Python str operations *)

IsSpace(c) == c = " "

strip(s) ==
    LET keep == {i \in 1..Len(s) : ~IsSpace(s[i])}
    IN  IF keep = {} THEN <<>> ELSE SubSeq(s, Min(keep), Max(keep))

UpperChar(c) == IF c = "a" THEN "A" ELSE c

upper(s) == [i \in 1..Len(s) |-> UpperChar(s[i])]

RECURSIVE split(_)
split(s) ==
    LET seps == {i \in 1..Len(s) : s[i] = ","}
    IN  IF seps = {} THEN <<s>>
        ELSE <<SubSeq(s, 1, Min(seps) - 1)>> \o split(SubSeq(s, Min(seps) + 1, Len(s)))

(* f"{x:.2f}" and round(x, 2): thousandths of a dollar to the nearest cent. *)
(* The inputs of the model never lie halfway between two cents.             *)
Format2f(x) == (x + 5) \div 10

round2(x) == (x + 5) \div 10

----------------------------------------------------------------------------
(* The data source *)

None == <<>>
Some(v) == <<v>>

(* Values a latest-quote field can hold, in thousandths of a dollar *)
FieldValues == {None, Some(0), Some(150250), Some(99996)}

InfoNotQueried == [status |-> "unqueried", regularMarketPrice |-> None,
                   currentPrice |-> None, lastPrice |-> None]

InfoResponses ==
    [status : {"ok"}, regularMarketPrice : FieldValues,
     currentPrice : FieldValues, lastPrice : FieldValues]
    \cup {[status |-> "raise", regularMarketPrice |-> None,
           currentPrice |-> None, lastPrice |-> None]}

(* A point of a series: a timestamp (month, day, slot of the day) and a close *)
Dates == {<<1, 9>>, <<1, 10>>, <<2, 1>>}
Today == <<2, 1>>
Slots == {0, 1}
Closes == {1002, 1007}

Points(dates) == [date : dates, slot : Slots, close : Closes]

Before(p, q) ==
    \/ p.date[1] < q.date[1]
    \/ p.date[1] = q.date[1] /\ p.date[2] < q.date[2]
    \/ p.date = q.date /\ p.slot < q.slot

(* Series: chronologically ordered, timestamps unique *)
SeriesOver(dates) ==
    UNION {{s \in [1..n -> Points(dates)] :
                \A i \in 1..(n - 1) : Before(s[i], s[i + 1])} : n \in 0..MaxPoints}

HistNotQueried == [status |-> "unqueried", series |-> <<>>]

HistResponses(dates) ==
    [status : {"ok"}, series : SeriesOver(dates)]
    \cup {[status |-> "raise", series |-> <<>>]}

Intraday == HistResponses({Today})
Historical == HistResponses(Dates)

(* Python's "x or y": x when x is truthy, else y.  None and 0 are falsy. *)
Truthy(v) == v # None /\ v # Some(0)
Or(x, y) == IF Truthy(x) THEN x ELSE y

----------------------------------------------------------------------------
(* Texts and exceptions.  A text is a record: its kind names the format     *)
(* string, the other fields are the values substituted into it.             *)

Return(text) == [tag |-> "return", value |-> text]
Raise(msg) == [tag |-> "raise", value |-> msg]

NoOutcome == [tag |-> "none", value |-> [kind |-> "none"]]

(* f"Current price of {symbol} is ${current_price:.2f}" *)
PriceText(symbol, price) ==
    [kind |-> "price", symbol |-> symbol, cents |-> Format2f(price)]

(* the message of an exception raised by the data source *)
SourceError(what) == [kind |-> "source_error", what |-> what]

(* f"Could not fetch price for {symbol} using any method" *)
CouldNotFetch(symbol) == [kind |-> "could_not_fetch", symbol |-> symbol]

(* f"Failed to fetch price for {symbol}: {str(e)}" *)
FailedToFetch(symbol, cause) ==
    [kind |-> "failed_to_fetch", symbol |-> symbol, cause |-> cause]

(* f"No historical data available for {symbol} with period {period} and interval {interval}" *)
NoHistoricalData(symbol, period, interval) ==
    [kind |-> "no_historical_data", symbol |-> symbol, period |-> period,
     interval |-> interval]

(* "not enough values to unpack" / "too many values to unpack" *)
UnpackError(n) == [kind |-> "unpack_error", parts |-> n]

Call(op, args) == [op |-> op, args |-> args]

P1d == <<"1", "d">>
I1m == <<"1", "m">>
I5m == <<"5", "m">>

----------------------------------------------------------------------------
(* get_realtime_stock_price *)

(* Tier 1: the or-chain over the latest-quote fields; an exception is local *)
InfoPrice(info) ==
    IF info.status # "ok" THEN None
    ELSE Or(Or(info.regularMarketPrice, info.currentPrice), info.lastPrice)

(* Mutant of HistPrice: the first close, iloc[0], instead of the last *)
HistPriceFirst(hist) ==
    IF hist.status # "ok" \/ hist.series = <<>> THEN None
    ELSE Some(hist.series[1].close)

(* Tiers 2 and 3: hist['Close'].iloc[-1] of a non-empty history *)
HistPrice(hist) ==
    IF hist.status # "ok" \/ hist.series = <<>> THEN None
    ELSE Some(hist.series[Len(hist.series)].close)

(* Mutant of get_realtime_stock_price: the closing raise is missing, and the *)
(* function falls through to a price text *)
get_realtime_stock_price_no_raise(symbol0, e) ==
    LET symbol == upper(strip(symbol0))
        c0 == <<Call("Ticker", <<symbol>>)>>
        c1 == Append(c0, Call("info", <<>>))
        c2 == Append(c1, Call("history", <<P1d, I1m>>))
        c3 == Append(c2, Call("history", <<P1d, I5m>>))
    IN  IF e.ticker # "ok"
        THEN [calls |-> c0,
              out |-> Raise(FailedToFetch(symbol, SourceError("Ticker")))]
        ELSE IF InfoPrice(e.info) # None
        THEN [calls |-> c1, out |-> Return(PriceText(symbol, InfoPrice(e.info)[1]))]
        ELSE IF HistPrice(e.h1m) # None
        THEN [calls |-> c2, out |-> Return(PriceText(symbol, HistPrice(e.h1m)[1]))]
        ELSE IF HistPrice(e.h5m) # None
        THEN [calls |-> c3, out |-> Return(PriceText(symbol, HistPrice(e.h5m)[1]))]
        ELSE [calls |-> c3, out |-> Return(PriceText(symbol, 0))]

get_realtime_stock_price(symbol0, e) ==
    LET symbol == upper(strip(symbol0))
        c0 == <<Call("Ticker", <<symbol>>)>>
        c1 == Append(c0, Call("info", <<>>))
        c2 == Append(c1, Call("history", <<P1d, I1m>>))
        c3 == Append(c2, Call("history", <<P1d, I5m>>))
    IN  IF e.ticker # "ok"
        THEN [calls |-> c0,
              out |-> Raise(FailedToFetch(symbol, SourceError("Ticker")))]
        ELSE IF InfoPrice(e.info) # None
        THEN [calls |-> c1, out |-> Return(PriceText(symbol, InfoPrice(e.info)[1]))]
        ELSE IF HistPrice(e.h1m) # None
        THEN [calls |-> c2, out |-> Return(PriceText(symbol, HistPrice(e.h1m)[1]))]
        ELSE IF HistPrice(e.h5m) # None
        THEN [calls |-> c3, out |-> Return(PriceText(symbol, HistPrice(e.h5m)[1]))]
        ELSE [calls |-> c3,
              out |-> Raise(FailedToFetch(symbol, CouldNotFetch(symbol)))]

(* Mutant of get_realtime_stock_price_wrapped: no try/except *)
get_realtime_stock_price_unwrapped(s, e) == get_realtime_stock_price(strip(s), e)

(* f"Error getting real-time price: {str(e)}" *)
get_realtime_stock_price_wrapped(s, e) ==
    LET r == get_realtime_stock_price(strip(s), e)
    IN  IF r.out.tag = "raise"
        THEN [calls |-> r.calls,
              out |-> Return([kind |-> "realtime_error", cause |-> r.out.value])]
        ELSE r

(* The responses the data source gives to one real-time invocation: a call *)
(* the code does not make has no response. *)
RealtimeEnvs ==
    {e \in [ticker : {"ok", "raise"},
            info : InfoResponses \cup {InfoNotQueried},
            h1m : Intraday \cup {HistNotQueried},
            h5m : Intraday \cup {HistNotQueried}] :
        /\ (e.info.status = "unqueried") <=> (e.ticker # "ok")
        /\ (e.h1m.status = "unqueried") <=>
               (e.ticker # "ok" \/ InfoPrice(e.info) # None)
        /\ (e.h5m.status = "unqueried") <=>
               (e.h1m.status = "unqueried" \/ HistPrice(e.h1m) # None)}

----------------------------------------------------------------------------
(* get_historical_stock_price *)

Digits == <<"0", "1", "2", "3", "4", "5", "6", "7", "8", "9">>

TwoDigits(n) == <<Digits[(n \div 10) + 1], Digits[(n % 10) + 1]>>

(* str(k.date()): the timestamp's calendar date as YYYY-MM-DD; the time of *)
(* day is dropped. *)
DateStr(date) ==
    <<"2", "0", "2", "4", "-">> \o TwoDigits(date[1]) \o <<"-">> \o TwoDigits(date[2])

(* Order of characters: "-" sorts before the digits *)
Ord(c) == IF c = "-" THEN 0 ELSE CHOOSE i \in 1..10 : Digits[i] = c

(* Python's order on str *)
StrLess(x, y) ==
    \/ \E i \in 1..Min({Len(x), Len(y)}) :
          /\ \A j \in 1..(i - 1) : x[j] = y[j]
          /\ Ord(x[i]) < Ord(y[i])
    \/ Len(x) < Len(y) /\ \A j \in 1..Len(x) : x[j] = y[j]

py_min(keys) == CHOOSE k \in keys : \A j \in keys : k = j \/ StrLess(k, j)
py_max(keys) == CHOOSE k \in keys : \A j \in keys : k = j \/ StrLess(j, k)

(* {str(k.date()): round(v, 2) for k, v in data.items()}: a later item with *)
(* the same key replaces the earlier one. *)
FormattedData(series) ==
    LET keys == {DateStr(series[i].date) : i \in 1..Len(series)}
        last(k) == Max({i \in 1..Len(series) : DateStr(series[i].date) = k})
    IN  [k \in keys |-> round2(series[last(k)].close)]

HistoricalResult(symbol, period, interval, series) ==
    LET formatted_data == FormattedData(series)
        keys == DOMAIN formatted_data
    IN  [kind |-> "historical_json",
         symbol |-> upper(symbol),
         period |-> period,
         interval |-> interval,
         data_points |-> Cardinality(keys),
         first_date |-> py_min(keys),
         last_date |-> py_max(keys),
         first_price |-> formatted_data[py_min(keys)],
         last_price |-> formatted_data[py_max(keys)],
         data |-> formatted_data]

get_historical_stock_price(symbol, period, interval, e) ==
    LET c0 == <<Call("get_historical_stock_price", <<symbol, period, interval>>),
                Call("Ticker", <<symbol>>)>>
        c1 == Append(c0, Call("history", <<period, interval>>))
    IN  IF e.ticker # "ok"
        THEN [calls |-> c0, out |-> Raise(SourceError("Ticker"))]
        ELSE IF e.hist.status # "ok"
        THEN [calls |-> c1, out |-> Raise(SourceError("history"))]
        ELSE IF e.hist.series = <<>>
        THEN [calls |-> c1,
              out |-> Raise(NoHistoricalData(symbol, period, interval))]
        ELSE [calls |-> c1,
              out |-> Return(HistoricalResult(symbol, period, interval,
                                              e.hist.series))]

(* Mutant of get_historical_stock_price_wrapped: the parts are not trimmed *)
get_historical_stock_price_untrimmed(s, e) ==
    LET parts == split(s)
    IN  IF Len(parts) # 3
        THEN [calls |-> <<>>,
              out |-> Return([kind |-> "historical_error",
                              cause |-> UnpackError(Len(parts))])]
        ELSE LET r == get_historical_stock_price(parts[1], parts[2], parts[3], e)
             IN  IF r.out.tag = "raise"
                 THEN [calls |-> r.calls,
                       out |-> Return([kind |-> "historical_error",
                                       cause |-> r.out.value])]
                 ELSE r

(* f"Error parsing input: {str(e)}" *)
get_historical_stock_price_wrapped(s, e) ==
    LET parts == split(s)
    IN  IF Len(parts) # 3
        THEN [calls |-> <<>>,
              out |-> Return([kind |-> "historical_error",
                              cause |-> UnpackError(Len(parts))])]
        ELSE LET r == get_historical_stock_price(strip(parts[1]), strip(parts[2]),
                                                 strip(parts[3]), e)
             IN  IF r.out.tag = "raise"
                 THEN [calls |-> r.calls,
                       out |-> Return([kind |-> "historical_error",
                                       cause |-> r.out.value])]
                 ELSE r

(* The responses the data source gives to one historical invocation *)
HistoricalEnvs ==
    {e \in [ticker : {"ok", "raise"}, hist : Historical \cup {HistNotQueried}] :
        (e.hist.status = "unqueried") <=> (e.ticker # "ok")}

NoEnv == [ticker |-> "none"]

----------------------------------------------------------------------------
(* The registered tools, invoked with any text *)

(* ToolSpec applies a tool func once, to any text of Strings and any *)
(* response of the data source. *)

NoAction == [tool |-> "none", tool_input |-> <<>>]

Init ==
    /\ tool = "none"
    /\ input_str = <<>>
    /\ env = NoEnv
    /\ calls = <<>>
    /\ outcome = NoOutcome
    /\ state = "IDLE"
    /\ iterations = 0
    /\ intermediate_steps = <<>>
    /\ pending = NoAction
    /\ observation = "none"
    /\ response = [kind |-> "none"]
    /\ http = [status |-> 0]

InvokeRealtime ==
    /\ tool = "none"
    /\ \E s \in Strings, e \in RealtimeEnvs :
          LET r == get_realtime_stock_price_wrapped(s, e)
          IN  /\ tool' = "get_realtime_stock_price"
              /\ input_str' = s
              /\ env' = e
              /\ calls' = r.calls
              /\ outcome' = r.out
    /\ UNCHANGED agentVars

InvokeHistorical ==
    /\ tool = "none"
    /\ \E s \in Strings :
          \E e \in (IF Len(split(s)) = 3 THEN HistoricalEnvs ELSE {NoEnv}) :
              LET r == get_historical_stock_price_wrapped(s, e)
              IN  /\ tool' = "get_historical_stock_price"
                  /\ input_str' = s
                  /\ env' = e
                  /\ calls' = r.calls
                  /\ outcome' = r.out
    /\ UNCHANGED agentVars

ToolNext == InvokeRealtime \/ InvokeHistorical

ToolSpec == Init /\ [][ToolNext]_vars

----------------------------------------------------------------------------
(* agent_executor: langchain's AgentExecutor as app.py configures it       *)
(* (max_iterations, handle_parsing_errors, return_intermediate_steps), and  *)
(* process_query.  A step of the history keeps the action's tool name and   *)
(* the kind of its observation.                                             *)

(* Mutants of the configuration: the earlier ceiling of 3, and parsing *)
(* errors not handled *)
max_iterations_before == 5 - 2
handle_parsing_errors_off == FALSE

max_iterations == 5
handle_parsing_errors == TRUE
return_intermediate_steps == TRUE

ToolNames == {"get_realtime_stock_price", "get_historical_stock_price"}

(* Action inputs the oracle emits in a reasoning run *)
AgentInputs == {<<"a">>, <<"a", ",", "a", ",", "a">>}

(* The dictionary agent_executor.invoke returns *)
InvokeResult(output) ==
    IF return_intermediate_steps
    THEN [kind |-> "return",
          value |-> [input |-> "query", output |-> output,
                     intermediate_steps |-> "steps"]]
    ELSE [kind |-> "return", value |-> [input |-> "query", output |-> output]]

InvokeRaised(what) == [kind |-> "raise", value |-> what]

StoppedText == "Agent stopped due to iteration limit or time limit."

(* process_query is called with a query *)
ReceiveQuery ==
    /\ state = "IDLE"
    /\ state' = "THINKING"
    /\ UNCHANGED <<iterations, intermediate_steps, pending, observation,
                   response, http>>
    /\ UNCHANGED toolVars

(* The oracle's output parses as a Final Answer *)
ThinkFinal ==
    /\ state = "THINKING"
    /\ iterations < max_iterations
    /\ state' = "DONE"
    /\ response' = InvokeResult("final answer")
    /\ UNCHANGED <<iterations, intermediate_steps, pending, observation, http>>
    /\ UNCHANGED toolVars

(* The oracle's output parses as Action / Action Input *)
ThinkAction ==
    /\ state = "THINKING"
    /\ iterations < max_iterations
    /\ \E name \in ToolNames \cup {"unregistered"}, text \in AgentInputs :
          pending' = [tool |-> name, tool_input |-> text]
    /\ state' = "ACTING"
    /\ UNCHANGED <<iterations, intermediate_steps, observation, response, http>>
    /\ UNCHANGED toolVars

(* The oracle's output matches neither form: an OutputParserException *)
ThinkMalformed ==
    /\ state = "THINKING"
    /\ iterations < max_iterations
    /\ IF handle_parsing_errors
       THEN /\ pending' = [tool |-> "_Exception", tool_input |-> <<>>]
            /\ observation' = "Invalid or incomplete response"
            /\ state' = "OBSERVING"
            /\ UNCHANGED response
       ELSE /\ state' = "RAISED"
            /\ response' = InvokeRaised("An output parsing error occurred")
            /\ UNCHANGED <<pending, observation>>
    /\ UNCHANGED <<iterations, intermediate_steps, http>>
    /\ UNCHANGED toolVars

(* The call of the language model raises *)
OracleFails ==
    /\ state = "THINKING"
    /\ iterations < max_iterations
    /\ state' = "RAISED"
    /\ response' = InvokeRaised("oracle")
    /\ UNCHANGED <<iterations, intermediate_steps, pending, observation, http>>
    /\ UNCHANGED toolVars

(* What the run of an action gives: the tool func's result, or InvalidTool's *)
(* text for a name that is not registered. *)
ToolRuns(name, text) ==
    IF name = "get_realtime_stock_price"
    THEN {get_realtime_stock_price_wrapped(text, e).out : e \in RealtimeEnvs}
    ELSE IF name = "get_historical_stock_price"
    THEN {get_historical_stock_price_wrapped(text, e).out : e \in HistoricalEnvs}
    ELSE {Return([kind |-> "is not a valid tool, try one of"])}

RunsOf ==
    [name \in ToolNames \cup {"unregistered"}, text \in AgentInputs |->
        ToolRuns(name, text)]

Act ==
    /\ state = "ACTING"
    /\ \E out \in RunsOf[pending.tool, pending.tool_input] :
          IF out.tag = "return"
          THEN /\ observation' = out.value.kind
               /\ state' = "OBSERVING"
               /\ UNCHANGED response
          ELSE /\ state' = "RAISED"
               /\ response' = InvokeRaised("tool")
               /\ UNCHANGED observation
    /\ UNCHANGED <<iterations, intermediate_steps, pending, http>>
    /\ UNCHANGED toolVars

(* The step is appended and counted; the loop stops at the ceiling *)
Observe ==
    /\ state = "OBSERVING"
    /\ intermediate_steps' =
           Append(intermediate_steps,
                  [tool |-> pending.tool, observation |-> observation])
    /\ iterations' = iterations + 1
    /\ pending' = NoAction
    /\ observation' = "none"
    /\ IF iterations + 1 < max_iterations
       THEN state' = "THINKING" /\ UNCHANGED response
       ELSE state' = "FAILED" /\ response' = InvokeResult(StoppedText)
    /\ UNCHANGED http
    /\ UNCHANGED toolVars

Text(prefix, body) == [prefix |-> prefix, body |-> body]

(* process_query's mapping of what invoke gave *)
Respond ==
    /\ state \in {"DONE", "FAILED", "RAISED"}
    /\ http.status = 0
    /\ http' =
          IF response.kind = "raise"
          THEN [status |-> 500, response |-> Text("", response.value)]
          ELSE IF "output" \in DOMAIN response.value
          THEN [status |-> 200, response |-> Text("", response.value["output"])]
          ELSE IF "error" \in DOMAIN response.value
          THEN [status |-> 200,
                response |-> Text("Error: ", response.value["error"])]
          ELSE [status |-> 200, response |-> Text("", "str(response)")]
    /\ UNCHANGED <<state, iterations, intermediate_steps, pending, observation,
                   response>>
    /\ UNCHANGED toolVars

Next ==
    \/ ReceiveQuery
    \/ ThinkFinal
    \/ ThinkAction
    \/ ThinkMalformed
    \/ OracleFails
    \/ Act
    \/ Observe
    \/ Respond

Spec == Init /\ [][Next]_vars

FairSpec == Init /\ [][Next]_vars /\ WF_vars(Next)

----------------------------------------------------------------------------
(* Properties of the registered tools, checked under ToolSpec *)

RealtimeInvoked == tool = "get_realtime_stock_price"
HistoricalInvoked == tool = "get_historical_stock_price"

TextKinds == {"price", "realtime_error", "historical_json", "historical_error"}

(* C1: whatever the input text and whatever the data source does, a tool *)
(* func returns a text and raises nothing. *)
C1_ToolsNeverRaise ==
    tool # "none" => outcome.tag = "return" /\ outcome.value.kind \in TextKinds

(* C1 witness: the empty text, with every lookup of the data source raising *)
C1_Witness ==
    /\ RealtimeInvoked
    /\ input_str = <<>>
    /\ env.ticker = "ok"
    /\ env.info.status = "raise"
    /\ env.h1m.status = "raise"
    /\ env.h5m.status = "raise"
    /\ outcome.tag = "return"

(* The first of the latest-quote fields that is not None *)
FirstNonNull(info) ==
    IF info.regularMarketPrice # None THEN info.regularMarketPrice
    ELSE IF info.currentPrice # None THEN info.currentPrice
    ELSE info.lastPrice

HistoryCalls == {i \in 1..Len(calls) : calls[i].op = "history"}

(* C3: when a latest-quote field is not None, the price returned is the *)
(* first such field to two decimals, the value 0 included, and no history *)
(* lookup is made. *)
C3_FirstNonNullFieldWins ==
    (/\ RealtimeInvoked
     /\ env.ticker = "ok"
     /\ env.info.status = "ok"
     /\ FirstNonNull(env.info) # None)
    => /\ outcome.tag = "return"
       /\ outcome.value.kind = "price"
       /\ outcome.value.cents = Format2f(FirstNonNull(env.info)[1])
       /\ HistoryCalls = {}

(* t is raw without its leading and trailing blanks *)
IsTrimOf(t, raw) ==
    /\ t # <<>> => t[1] # " " /\ t[Len(t)] # " "
    /\ \E i \in 0..(Len(raw) - Len(t)) :
          /\ \A k \in 1..Len(t) : t[k] = raw[i + k]
          /\ \A k \in 1..Len(raw) : (k <= i \/ k > i + Len(t)) => raw[k] = " "

(* u is t with its letters in upper case *)
IsUpperOf(u, t) ==
    /\ Len(u) = Len(t)
    /\ \A k \in 1..Len(t) : u[k] = (IF t[k] = "a" THEN "A" ELSE t[k])

(* sym is raw trimmed and upper-cased *)
IsNormalized(sym, raw) ==
    \E i \in 0..(Len(raw) - Len(sym)) :
        LET t == [k \in 1..Len(sym) |-> raw[i + k]]
        IN  IsTrimOf(t, raw) /\ IsUpperOf(sym, t)

NoQuote(info) ==
    \/ info.status = "raise"
    \/ /\ info.status = "ok"
       /\ info.regularMarketPrice = None
       /\ info.currentPrice = None
       /\ info.lastPrice = None

NoHistory(hist) ==
    \/ hist.status = "raise"
    \/ hist.status = "ok" /\ hist.series = <<>>

AllTiersYieldNothing ==
    /\ RealtimeInvoked
    /\ env.ticker = "ok"
    /\ NoQuote(env.info)
    /\ NoHistory(env.h1m)
    /\ NoHistory(env.h5m)

(* C5: when the quote fields, the 1-minute and the 5-minute history all give *)
(* nothing (empty or raising), the fetch fails with an error naming the *)
(* trimmed, upper-cased symbol, and the tool's text is an error text, never *)
(* a price text. *)
C5_AllTiersEmptyIsError ==
    AllTiersYieldNothing
    => /\ outcome.tag = "return"
       /\ outcome.value.kind = "realtime_error"
       /\ outcome.value.cause.kind = "failed_to_fetch"
       /\ outcome.value.cause.cause.kind = "could_not_fetch"
       /\ IsNormalized(outcome.value.cause.symbol, input_str)
       /\ outcome.value.cause.cause.symbol = outcome.value.cause.symbol

(* C5 witness: a padded lower-case symbol, no quote, one history empty and *)
(* the other raising *)
C5_Witness ==
    /\ AllTiersYieldNothing
    /\ input_str = <<" ", "a", " ">>
    /\ env.info.status = "ok"
    /\ env.h1m.status = "ok"
    /\ env.h5m.status = "raise"
    /\ outcome.value.cause.symbol = <<"A">>

ExpectedCallOrder(symbol) ==
    <<Call("Ticker", <<symbol>>), Call("info", <<>>),
      Call("history", <<P1d, I1m>>), Call("history", <<P1d, I5m>>)>>

Separators == {i \in 1..Len(input_str) : input_str[i] = ","}

(* The text between positions i and j of the input, both excluded *)
Between(i, j) == [k \in 1..(j - i - 1) |-> input_str[i + k]]

(* C6: an input with exactly two separators is fetched with its three parts, *)
(* each trimmed, as symbol, period and interval; any other input makes no *)
(* call at all and gives an error text. *)
C6_ThreePartsOrError ==
    HistoricalInvoked
    => IF Cardinality(Separators) = 2
       THEN LET i == Min(Separators)
                j == Max(Separators)
            IN  /\ Len(calls) >= 2
                /\ calls[1].op = "get_historical_stock_price"
                /\ Len(calls[1].args) = 3
                /\ IsTrimOf(calls[1].args[1], Between(0, i))
                /\ IsTrimOf(calls[1].args[2], Between(i, j))
                /\ IsTrimOf(calls[1].args[3], Between(j, Len(input_str) + 1))
                /\ calls[2] = Call("Ticker", <<calls[1].args[1]>>)
                /\ Len(calls) > 2
                   => calls[3] = Call("history",
                                      <<calls[1].args[2], calls[1].args[3]>>)
       ELSE /\ calls = <<>>
            /\ outcome.tag = "return"
            /\ outcome.value.kind = "historical_error"
            /\ outcome.value.cause.kind = "unpack_error"

(* C6 witness: "a, a," is fetched as symbol a, period a and an empty *)
(* interval *)
C6_Witness ==
    /\ HistoricalInvoked
    /\ input_str = <<"a", ",", " ", "a", ",">>
    /\ Len(calls) = 3
    /\ calls[1].args = << <<"a">>, <<"a">>, <<>> >>

(* C6 witness of the malformed case: "a" makes no call *)
C6_WitnessMalformed ==
    /\ HistoricalInvoked
    /\ input_str = <<"a">>
    /\ calls = <<>>
    /\ outcome.value.kind = "historical_error"

HistoricalRecord == HistoricalInvoked /\ outcome.value.kind = "historical_json"

(* C8: first_date and last_date are the least and greatest keys of data, *)
(* first_price and last_price the values at those keys, and they are the *)
(* earliest and the latest point of the fetched series. *)
C8_FirstAndLastPoint ==
    HistoricalRecord
    => LET r == outcome.value
           series == env.hist.series
       IN  /\ r.first_date \in DOMAIN r.data
           /\ r.last_date \in DOMAIN r.data
           /\ \A k \in DOMAIN r.data :
                  /\ k = r.first_date \/ StrLess(r.first_date, k)
                  /\ k = r.last_date \/ StrLess(k, r.last_date)
           /\ r.first_price = r.data[r.first_date]
           /\ r.last_price = r.data[r.last_date]
           /\ r.first_date = DateStr(series[1].date)
           /\ r.first_price = round2(series[1].close)
           /\ r.last_date = DateStr(series[Len(series)].date)
           /\ r.last_price = round2(series[Len(series)].close)

(* C10: the record holds one entry per point of the fetched series, and *)
(* data_points is the number of points of the series. *)
C10_NoPointLost ==
    HistoricalRecord
    => /\ Cardinality(DOMAIN outcome.value.data) = Len(env.hist.series)
       /\ outcome.value.data_points = Len(env.hist.series)

----------------------------------------------------------------------------
(* Properties of the reasoning run, checked under Spec and FairSpec *)

Ended == state \in {"DONE", "FAILED", "RAISED"}

RunBounded ==
    /\ iterations <= 5
    /\ Len(intermediate_steps) = iterations
    /\ state = "DONE"
       => /\ iterations < 5
          /\ response.kind = "return"
          /\ response.value["output"] = "final answer"
    /\ state = "FAILED"
       => /\ iterations = 5
          /\ response.kind = "return"
          /\ response.value["output"] = StoppedText

C4_FailedRunIsPrefixed ==
    http.status # 0
    => /\ state = "DONE"
          => http.status = 200 /\ http.response = Text("", "final answer")
       /\ state = "FAILED"
          => http.status = 200 /\ http.response.prefix = "Error: "

(* C7: a malformed output of the oracle ends nothing.  It becomes the *)
(* observation of a step, the step is counted once, and the loop is back at *)
(* THINKING unless that step was the fifth. *)
C7_MalformedIsRecoverable ==
    [][/\ ThinkMalformed
          => /\ state' = "OBSERVING"
             /\ pending'.tool = "_Exception"
             /\ observation' = "Invalid or incomplete response"
             /\ iterations' = iterations
       /\ (state = "OBSERVING" /\ pending.tool = "_Exception")
          => /\ iterations' = iterations + 1
             /\ intermediate_steps' =
                    Append(intermediate_steps,
                           [tool |-> "_Exception",
                            observation |-> "Invalid or incomplete response"])
             /\ IF iterations' < 5 THEN state' = "THINKING"
                ELSE state' = "FAILED"]_vars

(* C7 witness: the first output was malformed and the run is DONE *)
C7_Witness ==
    /\ state = "DONE"
    /\ Len(intermediate_steps) >= 1
    /\ intermediate_steps[1].tool = "_Exception"

====
